---- MODULE Spec2Model ----
(***************************************************************************)
(* A model of advanced-vector/vector.h: RawMemory<T> (a block of raw       *)
(* slots) and Vector<T> (a block plus size_).  Two Vector<T> objects are   *)
(* modelled so that copy/move construction and assignment have a source    *)
(* and a destination.  A slot is a value plus a flag saying whether a live *)
(* T object is constructed there.  The value Indet stands for the content  *)
(* of raw memory and for the unspecified value of a moved-from object.     *)
(* C++ indices are 0-based: slot k of the code is element k + 1 of the     *)
(* sequences below.                                                        *)
(***************************************************************************)
EXTENDS Integers, Sequences, FiniteSets, TLC

\* ------------------------------------------------------------------ bounds
MaxCap == 4           \* no vector grows beyond MaxCap slots
MaxVal == 1           \* the values pushed and inserted are 0..MaxVal

Main == "d"           \* the vector the calls are made on
Other == "s"          \* a second vector: the source of a copy or a move
Ids == {Main, Other}
Values == 0..MaxVal
Indet == -1           \* raw memory / moved-from: no definite value
DefaultVal == 0       \* the value of a value-initialised T (T())
Fails == {"none", "alloc", "ctor", "transfer"}   \* what fails inside a call

VARIABLES vec,        \* vec[id]: the Vector object (ex: does the object exist)
          nothrowMove,\* is_nothrow_move_constructible_v<T> (T is copyable)
          call,       \* the last call: its inputs, how it ended, what it returned
          shadow,     \* the abstract sequence driven by push/pop (SpecPushPop)
          heap        \* the raw blocks: how many are allocated, was one released twice

vars == <<vec, nothrowMove, call, shadow, heap>>

\* ------------------------------------------------------------- RawMemory
\* A block: val[k+1] is the content of slot k, live[k+1] says a T lives there.
NullBlock == [val |-> <<>>, live |-> <<>>]

Allocate(n) == [val |-> [k \in 1..n |-> Indet], live |-> [k \in 1..n |-> FALSE]]

Cap(b) == Len(b.val)

InRange(b, k) == k >= 0 /\ k < Cap(b)

\* the access needs a live object in slot k (read, assign to, move from, destroy)
CanUse(b, k) == InRange(b, k) /\ b.live[k + 1]

\* placement new needs an existing, uninitialized slot k
CanConstruct(b, k) == InRange(b, k) /\ ~b.live[k + 1]

ValAt(b, k) == IF InRange(b, k) THEN b.val[k + 1] ELSE Indet

\* new (b + k) T(v)
ConstructAt(b, k, v) ==
    IF InRange(b, k)
    THEN [val |-> [b.val EXCEPT ![k + 1] = v], live |-> [b.live EXCEPT ![k + 1] = TRUE]]
    ELSE b

\* (b + k)->~T()
DestroyAt(b, k) ==
    IF InRange(b, k)
    THEN [val |-> [b.val EXCEPT ![k + 1] = Indet], live |-> [b.live EXCEPT ![k + 1] = FALSE]]
    ELSE b

\* b[k] = v  (assignment changes the value, not the lifetime)
AssignAt(b, k, v) ==
    IF InRange(b, k) THEN [b EXCEPT !.val[k + 1] = v] ELSE b

\* the one element of a one-element set: binds a computed value to a name
Only(S) == CHOOSE x \in S : TRUE

\* std::destroy_n(b + first, n): the destructor runs on slots first .. first+n-1.
\* Returns [b, bad].
DestroyN(b, first, n) ==
    [b   |-> [val  |-> [k \in 1..Cap(b) |->
                          IF k > first /\ k <= first + n THEN Indet ELSE b.val[k]],
              live |-> [k \in 1..Cap(b) |->
                          IF k > first /\ k <= first + n THEN FALSE ELSE b.live[k]]],
     bad |-> \E k \in first..(first + n - 1) : ~CanUse(b, k)]

\* std::uninitialized_value_construct_n(b + first, n)
ValueConstructN(b, first, n) ==
    [b   |-> [val  |-> [k \in 1..Cap(b) |->
                          IF k > first /\ k <= first + n THEN DefaultVal ELSE b.val[k]],
              live |-> [k \in 1..Cap(b) |->
                          IF k > first /\ k <= first + n THEN TRUE ELSE b.live[k]]],
     bad |-> \E k \in first..(first + n - 1) : ~CanConstruct(b, k)]

\* std::uninitialized_copy_n / std::uninitialized_move_n (src + s, n, dst + d)
\* between two different blocks: element k of the range is constructed in
\* dst + d + k from src + s + k; byMove leaves each source moved-from.
\* throwAt = j in 0..n-1: the construction of element j throws, the j elements
\* constructed so far are destroyed and the exception leaves.
\* Returns [src, dst, bad, threw].
UninitializedTransferN(src, dst, s, n, d, byMove, throwAt) ==
    LET threw == throwAt >= 0 /\ throwAt < n
        m     == IF threw THEN throwAt ELSE n
    IN  [src   |-> IF byMove
                   THEN [src EXCEPT !.val = [k \in 1..Cap(src) |->
                            IF k > s /\ k <= s + m THEN Indet ELSE src.val[k]]]
                   ELSE src,
         dst   |-> [val  |-> [k \in 1..Cap(dst) |->
                               IF k > d /\ k <= d + m
                               THEN (IF threw THEN Indet ELSE ValAt(src, s + k - d - 1))
                               ELSE dst.val[k]],
                    live |-> [k \in 1..Cap(dst) |->
                               IF k > d /\ k <= d + m THEN ~threw ELSE dst.live[k]]],
         bad   |-> \E k \in 0..(m - 1) : ~CanUse(src, s + k) \/ ~CanConstruct(dst, d + k),
         threw |-> threw]

\* ---------------------------------------------------------------- Vector
Blk(v) == [val |-> v.val, live |-> v.live]

MkVec(b, size) == [ex |-> TRUE, val |-> b.val, live |-> b.live, size |-> size]

\* a Vector object that does not exist (not yet constructed, or destroyed)
NoVec == [ex |-> FALSE, val |-> <<>>, live |-> <<>>, size |-> 0]

\* Vector() = default
DefaultVec == MkVec(NullBlock, 0)

Size(v) == v.size

Capacity(v) == Len(v.val)

\* the element values a caller reads through v[0], ..., v[Size() - 1]
Elems(v) == [k \in 1..v.size |-> IF k <= Len(v.val) THEN v.val[k] ELSE Indet]

\* the class invariant of Vector: [0, size_) live, [size_, capacity) raw
WellFormed(v) ==
    /\ v.size <= Capacity(v)
    /\ \A k \in 1..Capacity(v) : v.live[k] <=> (k <= v.size)

AnyLive(b) == \E k \in 1..Len(b.live) : b.live[k]

\* The result of one call on one vector: the object afterwards, how the call
\* ended ("ok", "bad_alloc", "throw"), bad: some access did not find its slot
\* in the state it needs, ub: the call ran undefined behaviour, leak: a block
\* was deallocated with a live object in it, the path taken, the iterator or
\* reference returned (cur: it points into the block the vector owns now).
Res(v, out, bad, ub, leak, path, ret) ==
    [v |-> v, out |-> out, bad |-> bad, ub |-> ub, leak |-> leak, path |-> path, ret |-> ret,
     steps |-> <<>>]

\* What a call does to RawMemory instances and to size_, step by step, in the
\* order of the code.  The instances: "this" and "other" are the data_ of the
\* object called and of its argument, "new" is the local new_data, "copy" the
\* data_ of the local rhs_copy.
Step(a, i, j, k, n, ok) == [a |-> a, i |-> i, j |-> j, k |-> k, n |-> n, ok |-> ok]

\* RawMemory() = default: no block
InitNull(i) == Step("null", i, "", 0, 0, TRUE)

\* RawMemory(size_t capacity): buffer_(Allocate(capacity))
Alloc(i, n) == Step("alloc", i, "", 0, n, TRUE)

\* ~RawMemory(): Deallocate(buffer_); ok: no live object is left in the block
Release(i, live) == Step("release", i, "", 0, 0, ~live)

\* RawMemory::Swap
SwapStep(i, j) == Step("swap", i, j, 0, 0, TRUE)

\* placement new of the new element in slot k of i's block
Construct(i, k) == Step("construct", i, "", k, 1, TRUE)

\* uninitialized_move_n / uninitialized_copy_n of n elements from i's block
\* to j's; ok: no construction threw
Transfer(i, j, n, ok) == Step("transfer", i, j, 0, n, ok)

\* the same from slot k of i's block on
TransferAt(i, j, k, n, ok) == Step("transfer", i, j, k, n, ok)

\* destroy_n of n elements of i's block from slot k on
DestroyStep(i, k, n) == Step("destroy", i, "", k, n, TRUE)

\* ++size_, --size_, size_ = n
SetSize(n) == Step("size", "this", "", 0, n, TRUE)

\* uninitialized_value_construct_n of n elements in i's block from slot k on
ValueConstruct(i, k, n) == Step("construct", i, "", k, n, TRUE)

\* std::move / std::move_backward of n elements inside i's block
MoveStep(i, k, n) == Step("move", i, "", k, n, TRUE)

\* "data_[i] = other.data_[i]" for the first n elements
AssignStep(n) == Step("assign", "this", "other", 0, n, TRUE)

\* steps made by a local Vector rhs_copy: its data_ is the instance "copy"
OfCopy(steps) ==
    [k \in 1..Len(steps) |->
        [steps[k] EXCEPT !.i = IF @ = "this" THEN "copy" ELSE @,
                         !.j = IF @ = "this" THEN "copy" ELSE @]]

\* a step that ended with an exception
Threw(step) == [step EXCEPT !.ok = FALSE]

\* r, a call that made the steps s
Did(r, s) == [r EXCEPT !.steps = s]

NoRet == [cur |-> TRUE, idx |-> -1]

RetAt(index) == [cur |-> TRUE, idx |-> index]

Unchanged(v, out, path) == Res(v, out, FALSE, FALSE, FALSE, path, NoRet)

\* r, with the bad accesses and leaks of an earlier step r0 of the same call
After(r0, r) ==
    [r EXCEPT !.bad = r.bad \/ r0.bad, !.ub = r.ub \/ r0.ub, !.leak = r.leak \/ r0.leak,
              !.steps = r0.steps \o r.steps]

\* An argument of type const T& / Args&&: a value outside the vector, or a
\* reference to the vector's own element k, read when the code reads it.
ExtArg(x) == [ref |-> FALSE, x |-> x]

RefArg(k) == [ref |-> TRUE, x |-> k]

Deref(b, arg) == IF arg.ref THEN ValAt(b, arg.x) ELSE arg.x

DerefBad(b, arg) == arg.ref /\ ~CanUse(b, arg.x)

\* "if constexpr (is_nothrow_move_constructible_v<T> || !is_copy_constructible_v<T>)"
\* moves, else copies: only the copy can throw.
ThrowAt(byMove, fail, j) == IF fail = "transfer" /\ ~byMove THEN j ELSE -1

\* Reserve after the transfer t into the new block
ReserveSwap(v, t) ==
    IF t.threw
    THEN Did(Res(MkVec(t.src, v.size), "throw", t.bad, t.bad, AnyLive(t.dst), "realloc",
                 NoRet),
             <<Alloc("new", Cap(t.dst)), Transfer("this", "new", v.size, FALSE),
               Release("new", AnyLive(t.dst))>>)
    ELSE Only({Did(Res(MkVec(t.dst, v.size), "ok", t.bad \/ dd.bad, t.bad \/ dd.bad,
                       AnyLive(dd.b), "realloc", NoRet),
                   <<Alloc("new", Cap(t.dst)), Transfer("this", "new", v.size, TRUE),
                     DestroyStep("this", 0, v.size), SwapStep("this", "new"),
                     Release("new", AnyLive(dd.b))>>) :
               dd \in {DestroyN(t.src, 0, v.size)}})

\* a Reserve that destroys the old elements before it has the new block
ReserveDestroysFirst(v, new_capacity, byMove, fail, j) ==
    IF new_capacity <= Capacity(v) THEN Unchanged(v, "ok", "noop")
    ELSE IF fail = "alloc"
    THEN Res(MkVec(DestroyN(Blk(v), 0, v.size).b, 0), "bad_alloc", FALSE, FALSE, FALSE,
             "realloc", NoRet)
    ELSE Only({ReserveSwap(v, t) :
               t \in {UninitializedTransferN(Blk(v), Allocate(new_capacity), 0, v.size, 0,
                                             byMove, ThrowAt(byMove, fail, j))}})

\* a Reserve that returns early only for "new_capacity == data_.Capacity()"
ReserveAlsoShrinks(v, new_capacity, byMove, fail, j) ==
    IF new_capacity = Capacity(v) THEN Unchanged(v, "ok", "noop")
    ELSE IF fail = "alloc" THEN Unchanged(v, "bad_alloc", "realloc")
    ELSE Only({ReserveSwap(v, t) :
               t \in {UninitializedTransferN(Blk(v), Allocate(new_capacity), 0, v.size, 0,
                                             byMove, ThrowAt(byMove, fail, j))}})

\* a Reserve that returns early only for "new_capacity < data_.Capacity()"
ReserveReallocatesEqual(v, new_capacity, byMove, fail, j) ==
    IF new_capacity < Capacity(v) THEN Unchanged(v, "ok", "noop")
    ELSE IF fail = "alloc" THEN Unchanged(v, "bad_alloc", "realloc")
    ELSE Only({ReserveSwap(v, t) :
               t \in {UninitializedTransferN(Blk(v), Allocate(new_capacity), 0, v.size, 0,
                                             byMove, ThrowAt(byMove, fail, j))}})

\* void Reserve(size_t new_capacity)
ReserveOp(v, new_capacity, byMove, fail, j) ==
    IF new_capacity <= Capacity(v) THEN Unchanged(v, "ok", "noop")
    ELSE IF fail = "alloc" THEN Unchanged(v, "bad_alloc", "realloc")
    ELSE Only({ReserveSwap(v, t) :
               t \in {UninitializedTransferN(Blk(v), Allocate(new_capacity), 0, v.size, 0,
                                             byMove, ThrowAt(byMove, fail, j))}})

\* a new block one slot larger than the old one
AppendGrowsByOne(w) == Capacity(w) + 1

\* "RawMemory<T> new_data(data_.Capacity() * 2);"
AppendNewCapacity(w) == Capacity(w) * 2

\* a reallocation path that swaps the storage in before it constructs the new
\* element: transfer, destroy_n, Swap, then placement new in data_ and ++size_
AppendSwapsFirst(w, b1, t) ==
    IF t.threw
    THEN Did(Res(MkVec(t.src, w.size), "throw", b1 \/ t.bad, b1 \/ t.bad, AnyLive(t.dst),
                 "realloc", NoRet),
             <<Alloc("new", Cap(t.dst)), Transfer("this", "new", w.size, FALSE),
               Release("new", AnyLive(t.dst))>>)
    ELSE Only({Did(Res(MkVec(t.dst, w.size + 1), "ok", b1 \/ t.bad \/ dd.bad,
                       b1 \/ t.bad \/ dd.bad, AnyLive(dd.b), "realloc", NoRet),
                   <<Alloc("new", Cap(t.dst)), Transfer("this", "new", w.size, TRUE),
                     DestroyStep("this", 0, w.size), SwapStep("this", "new"),
                     Release("new", AnyLive(dd.b)), Construct("this", w.size),
                     SetSize(w.size + 1)>>) :
               dd \in {DestroyN(t.src, 0, w.size)}})

\* the reallocation path of PushBack / EmplaceBack after the transfer t:
\* destroy_n, data_.Swap(new_data), ++size_
AppendSwap(w, b1, t) ==
    IF t.threw
    THEN Did(Res(MkVec(t.src, w.size), "throw", b1 \/ t.bad, b1 \/ t.bad, AnyLive(t.dst),
                 "realloc", NoRet),
             <<Alloc("new", Cap(t.dst)), Construct("new", w.size),
               Transfer("this", "new", w.size, FALSE), Release("new", AnyLive(t.dst))>>)
    ELSE Only({Did(Res(MkVec(t.dst, w.size + 1), "ok", b1 \/ t.bad \/ dd.bad,
                       b1 \/ t.bad \/ dd.bad, AnyLive(dd.b), "realloc", NoRet),
                   <<Alloc("new", Cap(t.dst)), Construct("new", w.size),
                     Transfer("this", "new", w.size, TRUE), DestroyStep("this", 0, w.size),
                     SwapStep("this", "new"), SetSize(w.size + 1),
                     Release("new", AnyLive(dd.b))>>) :
               dd \in {DestroyN(t.src, 0, w.size)}})

\* The body shared by PushBack(const T&), PushBack(T&&) and EmplaceBack:
\* w is the vector after "if (data_.Capacity() == 0) Reserve(1);".
AppendBody(w, arg, byMove, fail, j) ==
    IF w.size = Capacity(w)
    THEN IF fail = "alloc" THEN Unchanged(w, "bad_alloc", "realloc")
         ELSE IF fail = "ctor"
         THEN Did(Unchanged(w, "throw", "realloc"),
                  <<Alloc("new", AppendNewCapacity(w)), Threw(Construct("new", w.size)),
                    Release("new", FALSE)>>)
         ELSE Only({AppendSwap(w, ~CanConstruct(nd, w.size) \/ DerefBad(Blk(w), arg),
                               UninitializedTransferN(
                                   Blk(w), ConstructAt(nd, w.size, Deref(Blk(w), arg)),
                                   0, w.size, 0, byMove, ThrowAt(byMove, fail, j))) :
                    nd \in {Allocate(AppendNewCapacity(w))}})
    ELSE IF fail = "ctor"
         THEN Did(Unchanged(w, "throw", "inplace"), <<Threw(Construct("this", w.size))>>)
         ELSE Only({Did(Res(MkVec(ConstructAt(Blk(w), w.size, Deref(Blk(w), arg)),
                                  w.size + 1),
                            "ok", b1, b1, FALSE, "inplace", NoRet),
                        <<Construct("this", w.size), SetSize(w.size + 1)>>) :
                    b1 \in {~CanConstruct(Blk(w), w.size) \/ DerefBad(Blk(w), arg)}})

\* "if (data_.Capacity() == 0) Reserve(1);"
ReserveOne(v, byMove, fail, j) ==
    IF Capacity(v) = 0 THEN ReserveOp(v, 1, byMove, fail, j) ELSE Unchanged(v, "ok", "noop")

\* void PushBack(const T& value) / void PushBack(T&& value)
PushBackOp(v, arg, byMove, fail, j) ==
    Only({IF r0.out # "ok" THEN r0
          ELSE Only({After(r0, r) : r \in {AppendBody(r0.v, arg, byMove, fail, j)}}) :
          r0 \in {ReserveOne(v, byMove, fail, j)}})

\* "return data_[size_ - 1];"
BackRef(r) == IF r.out = "ok" THEN [r EXCEPT !.ret = RetAt(r.v.size - 1)] ELSE r

\* T& EmplaceBack(Args&&... args)
EmplaceBackOp(v, arg, byMove, fail, j) ==
    Only({IF r0.out # "ok" THEN r0
          ELSE Only({BackRef(After(r0, r)) : r \in {AppendBody(r0.v, arg, byMove, fail, j)}}) :
          r0 \in {ReserveOne(v, byMove, fail, j)}})

\* a PopBack that destroys the last element and keeps size_
PopBackKeepsSize(v) ==
    Res(MkVec(DestroyAt(Blk(v), v.size - 1), v.size), "ok", FALSE, FALSE, FALSE,
        "inplace", NoRet)

\* void PopBack() noexcept: "data_[--size_].~T();"
PopBackOp(v) ==
    Only({Did(Res(MkVec(DestroyAt(Blk(v), v.size - 1), v.size - 1), "ok", b1, b1, FALSE,
                  "inplace", NoRet),
              <<SetSize(v.size - 1), DestroyStep("this", v.size - 1, 1)>>) :
          b1 \in {~CanUse(Blk(v), v.size - 1)}})

\* a growing Resize that sets size_ and constructs nothing
ResizeGrowRaw(r0, new_size, fail) ==
    IF r0.out # "ok" THEN r0
    ELSE IF fail = "ctor"
    THEN Res(r0.v, "throw", r0.bad, r0.ub, r0.leak, r0.path, NoRet)
    ELSE Res(MkVec(Blk(r0.v), new_size), "ok", r0.bad, r0.ub, r0.leak, r0.path, NoRet)

\* Resize, growing, after "if (new_size > Capacity()) Reserve(new_size);" gave r0:
\* uninitialized_value_construct_n(data_ + size_, new_size - size_), size_ = new_size
ResizeGrow(r0, new_size, fail) ==
    IF r0.out # "ok" THEN r0
    ELSE IF fail = "ctor"
    THEN Did(Res(r0.v, "throw", r0.bad, r0.ub, r0.leak, r0.path, NoRet),
             Append(r0.steps,
                    Threw(ValueConstruct("this", r0.v.size, new_size - r0.v.size))))
    ELSE Only({Did(Res(MkVec(c.b, new_size), "ok", r0.bad \/ c.bad, r0.ub \/ c.bad,
                       r0.leak, r0.path, NoRet),
                   r0.steps \o <<ValueConstruct("this", r0.v.size, new_size - r0.v.size),
                                 SetSize(new_size)>>) :
               c \in {ValueConstructN(Blk(r0.v), r0.v.size, new_size - r0.v.size)}})

\* a Resize that grows without "if (new_size > Capacity()) Reserve(new_size);"
ResizeNoReserve(v, new_size, byMove, fail, j) ==
    IF new_size > v.size
    THEN ResizeGrow(Unchanged(v, "ok", "inplace"), new_size, fail)
    ELSE IF new_size < v.size
    THEN Only({Res(MkVec(dd.b, new_size), "ok", dd.bad, dd.bad, FALSE, "inplace", NoRet) :
               dd \in {DestroyN(Blk(v), new_size, v.size - new_size)}})
    ELSE Unchanged(v, "ok", "noop")

\* void Resize(size_t new_size)
ResizeOp(v, new_size, byMove, fail, j) ==
    IF new_size > v.size
    THEN Only({ResizeGrow(r0, new_size, fail) :
               r0 \in {IF new_size > Capacity(v) THEN ReserveOp(v, new_size, byMove, fail, j)
                       ELSE Unchanged(v, "ok", "inplace")}})
    ELSE IF new_size < v.size
    THEN Only({Did(Res(MkVec(dd.b, new_size), "ok", dd.bad, dd.bad, FALSE, "inplace",
                       NoRet),
                   <<DestroyStep("this", new_size, v.size - new_size), SetSize(new_size)>>) :
               dd \in {DestroyN(Blk(v), new_size, v.size - new_size)}})
    ELSE Unchanged(v, "ok", "noop")

\* *dst = std::move(*src) inside one block.  A moved-from source keeps a
\* valid but unspecified value, which every caller below overwrites or
\* destroys.  A self-move (dst = src) leaves a valid but unspecified value
\* too: self is that value (for an int the old one, for a std::string of
\* libstdc++ the empty string).  m is [b, bad] so far.
MoveAssignSlot(m, dst, src, self) ==
    [b   |-> IF dst = src THEN AssignAt(m.b, dst, self)
             ELSE AssignAt(AssignAt(m.b, dst, ValAt(m.b, src)), src, Indet),
     bad |-> m.bad \/ ~CanUse(m.b, dst) \/ ~CanUse(m.b, src)]

\* std::move(b + first, b + last, b + d_first):
\* "for (; first != last; ++first, ++d_first) *d_first = std::move(*first);"
RECURSIVE MoveRange(_, _, _, _)
MoveRange(m, first, last, d_first) ==
    IF first >= last THEN m
    ELSE Only({MoveRange(m1, first + 1, last, d_first + 1) :
               m1 \in {MoveAssignSlot(m, d_first, first, Indet)}})

\* std::move_backward(b + first, b + last, b + d_last) for first <= last:
\* "while (first != last) *--d_last = std::move(*--last);"
RECURSIVE MoveBackward(_, _, _, _, _)
MoveBackward(m, first, last, d_last, self) ==
    IF first >= last THEN m
    ELSE Only({MoveBackward(m1, first, last - 1, d_last - 1, self) :
               m1 \in {MoveAssignSlot(m, d_last - 1, last - 1, self)}})

Start(b) == [b |-> b, bad |-> FALSE]

\* an Erase that moves from begin() + index instead of begin() + index + 1
EraseMovesFromIndex(v, index) ==
    Only({Res(MkVec(DestroyAt(m.b, v.size - 1), v.size - 1), "ok",
              m.bad \/ ~CanUse(m.b, v.size - 1), m.bad \/ ~CanUse(m.b, v.size - 1),
              FALSE, "inplace", RetAt(index)) :
          m \in {MoveRange(Start(Blk(v)), index, v.size, index)}})

\* iterator Erase(const_iterator pos), index = pos - cbegin()
EraseOp(v, index) ==
    Only({Did(Res(MkVec(DestroyAt(m.b, v.size - 1), v.size - 1), "ok",
                  m.bad \/ ~CanUse(m.b, v.size - 1), m.bad \/ ~CanUse(m.b, v.size - 1),
                  FALSE, "inplace", RetAt(index)),
              <<MoveStep("this", index + 1, v.size - index - 1),
                DestroyStep("this", v.size - 1, 1), SetSize(v.size - 1)>>) :
          m \in {MoveRange(Start(Blk(v)), index + 1, v.size, index)}})

\* a new block of twice the capacity also for an empty vector
EmplaceDoubles(v) == Capacity(v) * 2

\* "RawMemory<T> new_data(size_ == 0 ? 1 : data_.Capacity() * 2);"
EmplaceNewCapacity(v) == IF v.size = 0 THEN 1 ELSE Capacity(v) * 2

\* where the suffix [index, size_) goes in the new block
SuffixTarget(index) == index + 1

\* the reallocation path of Emplace after the transfers t1 (prefix) and t2
\* (suffix): destroy_n, data_.Swap(new_data), ++size_, return &data_[index]
EmplaceSwap(v, index, b1, t1, t2) ==
    IF t1.threw
    THEN Did(Res(MkVec(t1.src, v.size), "throw", b1 \/ t1.bad, b1 \/ t1.bad,
                 AnyLive(t1.dst), "realloc", NoRet),
             <<Alloc("new", Cap(t1.dst)), Construct("new", index),
               Transfer("this", "new", index, FALSE), Release("new", AnyLive(t1.dst))>>)
    ELSE IF t2.threw
    THEN Did(Res(MkVec(t2.src, v.size), "throw", b1 \/ t1.bad \/ t2.bad,
                 b1 \/ t1.bad \/ t2.bad, AnyLive(t2.dst), "realloc", NoRet),
             <<Alloc("new", Cap(t2.dst)), Construct("new", index),
               Transfer("this", "new", index, TRUE),
               TransferAt("this", "new", index, v.size - index, FALSE),
               Release("new", AnyLive(t2.dst))>>)
    ELSE Only({Did(Res(MkVec(t2.dst, v.size + 1), "ok", b1 \/ t1.bad \/ t2.bad \/ dd.bad,
                       b1 \/ t1.bad \/ t2.bad \/ dd.bad, AnyLive(dd.b), "realloc",
                       RetAt(index)),
                   <<Alloc("new", Cap(t2.dst)), Construct("new", index),
                     Transfer("this", "new", index, TRUE),
                     TransferAt("this", "new", index, v.size - index, TRUE),
                     DestroyStep("this", 0, v.size), SwapStep("this", "new"),
                     SetSize(v.size + 1), Release("new", AnyLive(dd.b))>>) :
               dd \in {DestroyN(t2.src, 0, v.size)}})

\* the suffix transfer of the reallocation path, after the prefix transfer t1
EmplaceSuffix(v, index, b1, t1, byMove, ta) ==
    Only({EmplaceSwap(v, index, b1, t1, t2) :
          t2 \in {IF t1.threw THEN t1
                  ELSE UninitializedTransferN(t1.src, t1.dst, index, v.size - index,
                                              SuffixTarget(index), byMove,
                                              IF ta >= index THEN ta - index ELSE -1)}})

\* Emplace, "if (size_ == data_.Capacity())": the reallocation path
EmplaceRealloc(v, index, arg, byMove, fail, j) ==
    IF fail = "alloc" THEN Unchanged(v, "bad_alloc", "realloc")
    ELSE IF fail = "ctor"
    THEN Did(Unchanged(v, "throw", "realloc"),
             <<Alloc("new", EmplaceNewCapacity(v)), Threw(Construct("new", index)),
               Release("new", FALSE)>>)
    ELSE Only({EmplaceSuffix(v, index,
                             ~CanConstruct(Allocate(EmplaceNewCapacity(v)), index)
                                 \/ DerefBad(Blk(v), arg),
                             t1, byMove, ThrowAt(byMove, fail, j)) :
               t1 \in {UninitializedTransferN(
                           Blk(v),
                           ConstructAt(Allocate(EmplaceNewCapacity(v)), index,
                                       Deref(Blk(v), arg)),
                           0, index, 0, byMove, ThrowAt(byMove, fail, j))}})

\* Emplace, the else branch: the in-place path.  temp = new T(args...), two
\* move_backward calls, placement new at index, delete temp, ++size_.
\* The first move_backward moves slot size_ - 1 onto itself (for size_ = 0 that
\* slot is before the block).  The second has first > last when index = size_:
\* undefined behaviour, which a build runs as no move at all or as a crash.
EmplaceInPlace(v, index, arg, fail, self) ==
    IF fail = "alloc" THEN Unchanged(v, "bad_alloc", "inplace")
    ELSE IF fail = "ctor" THEN Unchanged(v, "throw", "inplace")
    ELSE Only({Did(Res(MkVec(ConstructAt(m2.b, index, Deref(Blk(v), arg)), v.size + 1),
                       "ok",
                       DerefBad(Blk(v), arg) \/ m2.bad \/ index > v.size - 1
                           \/ ~CanConstruct(m2.b, index),
                       DerefBad(Blk(v), arg) \/ m2.bad \/ index > v.size - 1,
                       FALSE, "inplace", RetAt(index)),
                   <<MoveStep("this", v.size - 1, 1),
                     MoveStep("this", index, v.size - 1 - index),
                     Construct("this", index), SetSize(v.size + 1)>>) :
               m2 \in {MoveBackward(
                           MoveBackward(Start(Blk(v)), v.size - 1, v.size, v.size, self),
                           index, v.size - 1, v.size, self)}})

\* template <typename... Args> iterator Emplace(const_iterator pos, Args&&... args)
EmplaceOp(v, index, arg, byMove, fail, j, self) ==
    IF v.size = Capacity(v)
    THEN EmplaceRealloc(v, index, arg, byMove, fail, j)
    ELSE EmplaceInPlace(v, index, arg, fail, self)

\* Insert: is value an element of this vector?
\* "addressof(value) >= addressof(data_[0]) && addressof(value) <= addressof(data_[size_ - 1])"
Aliases(v, arg) == v.size # 0 /\ arg.ref /\ arg.x >= 0 /\ arg.x <= v.size - 1

\* iterator Insert(const_iterator pos, const T& value): a value inside the
\* vector is copied to a temporary first: "return Emplace(pos, T(value));"
InsertOp(v, index, arg, byMove, fail, j, self) ==
    IF Aliases(v, arg)
    THEN IF fail = "ctor" THEN Unchanged(v, "throw", "copy")
         ELSE Only({[r EXCEPT !.bad = r.bad \/ ~CanUse(Blk(v), arg.x),
                              !.ub = r.ub \/ ~CanUse(Blk(v), arg.x)] :
                    r \in {EmplaceOp(v, index, ExtArg(ValAt(Blk(v), arg.x)), byMove, fail,
                                     j, self)}})
    ELSE EmplaceOp(v, index, arg, byMove, fail, j, self)

\* ------------------------------------------- construction and assignment
\* explicit Vector(size_t size); fail = "ctor": a value-initialisation throws
SizeCtor(size, fail) ==
    IF fail = "alloc" THEN Unchanged(NoVec, "bad_alloc", "ctor")
    ELSE IF fail = "ctor"
    THEN Did(Unchanged(NoVec, "throw", "ctor"),
             <<Alloc("this", size), Threw(ValueConstruct("this", 0, size)),
               Release("this", FALSE)>>)
    ELSE Only({Did(Res(MkVec(c.b, size), "ok", c.bad, c.bad, FALSE, "ctor", NoRet),
                   <<Alloc("this", size), SetSize(size), ValueConstruct("this", 0, size)>>) :
               c \in {ValueConstructN(Allocate(size), 0, size)}})

\* Vector(const Vector& other)
CopyCtor(other, fail, j) ==
    IF fail = "alloc" THEN Unchanged(NoVec, "bad_alloc", "ctor")
    ELSE Only({IF t.threw
               THEN Did(Res(NoVec, "throw", t.bad, t.bad, AnyLive(t.dst), "ctor", NoRet),
                        <<Alloc("this", other.size),
                          Transfer("other", "this", other.size, FALSE),
                          Release("this", AnyLive(t.dst))>>)
               ELSE Did(Res(MkVec(t.dst, other.size), "ok", t.bad, t.bad, FALSE, "ctor",
                            NoRet),
                        <<Alloc("this", other.size), SetSize(other.size),
                          Transfer("other", "this", other.size, TRUE)>>) :
               t \in {UninitializedTransferN(Blk(other), Allocate(other.size), 0, other.size,
                                             0, FALSE, IF fail = "transfer" THEN j ELSE -1)}})

\* RawMemory::Swap / Vector::Swap: blocks, capacities and sizes change hands.
\* Returns the pair <<this, other>> after the swap.
SwapVec(this, other) == <<other, this>>

\* a move constructor that forgets to take other's size
MoveCtorNoSize(other) ==
    <<MkVec(Blk(other), 0), MkVec(NullBlock, 0)>>

\* Vector(Vector&& other) noexcept: RawMemory(RawMemory&&) swaps the empty
\* block of the new object with other's, then size_(other.size_), other.size_ = 0.
\* Returns <<the new object, other>>.
MoveCtor(other) ==
    <<MkVec(Blk(other), other.size), MkVec(NullBlock, 0)>>

\* a move assignment that releases its own elements and leaves other empty
MoveAssignSteals(this, other) ==
    <<MkVec(Blk(other), other.size), MkVec(NullBlock, 0)>>

\* Vector& operator=(Vector&& other) noexcept, this != &other:
\* data_.Swap(other.data_), std::swap(size_, other.size_)
MoveAssignVec(this, other) ==
    <<MkVec(Blk(other), other.size), MkVec(Blk(this), this.size)>>

\* the steps of Vector(Vector&&): data_(std::move(other.data_)) is a default
\* RawMemory swapped with other.data_
MoveCtorSteps == <<InitNull("this"), SwapStep("this", "other")>>

\* the steps of operator=(Vector&&) and of Swap on two different objects
SwapSteps == <<SwapStep("this", "other")>>

\* a destructor whose ~RawMemory() does not call Deallocate
DtorKeepsBlock(v) ==
    Only({Did(Res(NoVec, "ok", dd.bad, dd.bad, AnyLive(dd.b), "dtor", NoRet),
              <<DestroyStep("this", 0, v.size)>>) :
          dd \in {DestroyN(Blk(v), 0, v.size)}})

\* ~Vector() then ~RawMemory(): destroy_n(data_, size_), Deallocate(buffer_)
DtorOp(v) ==
    Only({Did(Res(NoVec, "ok", dd.bad, dd.bad, AnyLive(dd.b), "dtor", NoRet),
              <<DestroyStep("this", 0, v.size), Release("this", AnyLive(dd.b))>>) :
          dd \in {DestroyN(Blk(v), 0, v.size)}})

\* "for (size_t i = 0; i < n; ++i) data_[i] = other.data_[i];"  Returns [b, bad].
CopyAssignN(b, ob, n) ==
    [b   |-> [b EXCEPT !.val = [k \in 1..Cap(b) |->
                                  IF k <= n THEN ValAt(ob, k - 1) ELSE b.val[k]]],
     bad |-> \E k \in 0..(n - 1) : ~CanUse(b, k) \/ ~CanUse(ob, k)]

\* copy assignment, "if (other.size_ > data_.Capacity())":
\* Vector rhs_copy(other); Swap(rhs_copy); and rhs_copy is destroyed
CopyAndSwap(this, c) ==
    IF c.out # "ok"
    THEN Did(Res(this, c.out, c.bad, c.ub, c.leak, "copyswap", NoRet), OfCopy(c.steps))
    ELSE Only({Did(Res(SwapVec(this, c.v)[1], "ok", c.bad \/ d.bad, c.ub \/ d.ub, d.leak,
                       "copyswap", NoRet),
                   OfCopy(c.steps) \o <<SwapStep("this", "copy")>> \o OfCopy(d.steps)) :
               d \in {DtorOp(SwapVec(this, c.v)[2])}})

\* copy assignment, "if (other.size_ < size_)"
CopyShrink(this, other, a) ==
    Only({Did(Res(MkVec(dd.b, other.size), "ok", a.bad \/ dd.bad, a.bad \/ dd.bad, FALSE,
                  "shrink", NoRet),
              <<AssignStep(other.size),
                DestroyStep("this", other.size, this.size - other.size),
                SetSize(other.size)>>) :
          dd \in {DestroyN(a.b, other.size, this.size - other.size)}})

\* the last else of copy assignment without "size_ = other.size_;"
CopyGrowKeepsSize(this, other, a, t) ==
    Res(MkVec(t.dst, this.size), IF t.threw THEN "throw" ELSE "ok", a.bad \/ t.bad,
        a.bad \/ t.bad, FALSE, "grow", NoRet)

\* copy assignment, the last else: the new tail is copy-constructed in place
CopyGrow(this, other, a, t) ==
    Did(Res(MkVec(t.dst, IF t.threw THEN this.size ELSE other.size),
            IF t.threw THEN "throw" ELSE "ok", a.bad \/ t.bad, a.bad \/ t.bad, FALSE,
            "grow", NoRet),
        <<AssignStep(this.size),
          TransferAt("other", "this", this.size, other.size - this.size, ~t.threw)>>
            \o (IF t.threw THEN <<>> ELSE <<SetSize(other.size)>>))

\* Vector& operator=(const Vector& other), this != &other
CopyAssignOp(this, other, fail, j) ==
    IF other.size > Capacity(this)
    THEN Only({CopyAndSwap(this, c) : c \in {CopyCtor(other, fail, j)}})
    ELSE IF other.size < this.size
    THEN Only({CopyShrink(this, other, a) :
               a \in {CopyAssignN(Blk(this), Blk(other), other.size)}})
    ELSE Only({CopyGrow(this, other, a,
                        UninitializedTransferN(Blk(other), a.b, this.size,
                                               other.size - this.size, this.size, FALSE,
                                               IF fail = "transfer" THEN j ELSE -1)) :
               a \in {CopyAssignN(Blk(this), Blk(other), this.size)}})

\* ------------------------------------------------- the blocks of a call
\* The RawMemory instances of one call and the block each holds: "none" (the
\* instance does not exist), "null" (buffer_ = nullptr) or the name of a
\* block.  The block an object owns when the call starts is named after the
\* instance, the blocks allocated during the call are "a1", "a2", "a3".
Insts == {"this", "other", "new", "copy"}

Fresh == <<"a1", "a2", "a3">>

IsBlock(b) == b # "none" /\ b # "null"

\* the block of an object's data_ when the call starts
HeldBy(v, name) == IF ~v.ex THEN "none" ELSE IF Capacity(v) = 0 THEN "null" ELSE name

\* live: the blocks allocated and not released; count: blocks allocated in the
\* call; twice: a block was released twice; shared: two instances held the
\* same block; lost: an unreleased block was held by no instance; dangling:
\* an instance held a released block
HeapAt(this, other) ==
    [at    |-> [i \in Insts |-> IF i = "this" THEN HeldBy(this, "this")
                                ELSE IF i = "other" THEN HeldBy(other, "other")
                                ELSE "none"],
     live  |-> {b \in {HeldBy(this, "this"), HeldBy(other, "other")} : IsBlock(b)},
     count |-> 0, twice |-> FALSE, shared |-> FALSE, lost |-> FALSE, dangling |-> FALSE]

\* what one step does to the instances and the blocks
HeapStep(h, st) ==
    CASE st.a = "null" ->
           [h EXCEPT !.at[st.i] = "null"]
      [] st.a = "alloc" /\ st.n = 0 ->
           [h EXCEPT !.at[st.i] = "null"]
      [] st.a = "alloc" /\ st.n > 0 ->
           [h EXCEPT !.at[st.i] = Fresh[h.count + 1], !.count = h.count + 1,
                     !.live = h.live \cup {Fresh[h.count + 1]}]
      [] st.a = "swap" ->
           [h EXCEPT !.at[st.i] = h.at[st.j], !.at[st.j] = h.at[st.i]]
      [] st.a = "release" ->
           [h EXCEPT !.at[st.i] = "none", !.live = h.live \ {h.at[st.i]},
                     !.twice = h.twice \/ (IsBlock(h.at[st.i]) /\ h.at[st.i] \notin h.live)]
      [] OTHER -> h

\* h, with what is wrong in it noted
Audit(h) ==
    [h EXCEPT !.shared = h.shared \/ \E i, j \in Insts :
                            i # j /\ IsBlock(h.at[i]) /\ h.at[i] = h.at[j],
              !.lost = h.lost \/ \E b \in h.live : \A i \in Insts : h.at[i] # b,
              !.dangling = h.dangling \/ \E i \in Insts :
                            IsBlock(h.at[i]) /\ h.at[i] \notin h.live]

\* the heap after the steps from the k-th on
RECURSIVE Replay(_, _, _)
Replay(h, steps, k) ==
    IF k > Len(steps) THEN h
    ELSE Only({Replay(h1, steps, k + 1) : h1 \in {Audit(HeapStep(h, steps[k]))}})

\* ------------------------------------------------------------- the calls
NoArg == ExtArg(Indet)

\* no call to look at: before the first call, and between two calls
Idle == [op |-> "none", id |-> "", o |-> "", idx |-> -1, arg |-> NoArg, fail |-> "none",
         out |-> "ok", path |-> "", ret |-> NoRet, bad |-> FALSE, ub |-> FALSE,
         leak |-> FALSE, pre |-> [id \in Ids |-> NoVec], steps |-> <<>>,
         mem |-> HeapAt(NoVec, NoVec)]

\* no block is allocated
NoBlocks == [blocks |-> 0, twice |-> FALSE]

Init ==
    /\ vec = [id \in Ids |-> DefaultVec]
    /\ nothrowMove \in BOOLEAN
    /\ call = Idle
    /\ shadow = <<>>
    /\ heap = NoBlocks

\* The injected failure is the one the call ran into.
Outcome(fail) ==
    CASE fail = "none"  -> "ok"
      [] fail = "alloc" -> "bad_alloc"
      [] OTHER          -> "throw"

\* One call of the single-threaded caller: r is its result, after the objects
\* when it returns or throws.  call keeps the inputs, the state before and the
\* outcome for the caller to look at, until Return.  A call that ran undefined
\* behaviour may instead crash the program, after which nothing is called.
\* Calls are made on objects that satisfy the class invariant: a call that
\* breaks it leaves a state in which the invariant is false, and what any
\* later call does with such an object is undefined from its first access on.
Finish(op, id, o, idx, arg, fail, r, after) ==
    /\ call = Idle
    /\ \A i \in Ids : WellFormed(vec[i])
    /\ r.out = Outcome(fail)
    /\ \A i \in Ids : Capacity(after[i]) <= MaxCap
    /\ \E crash \in (IF r.ub THEN BOOLEAN ELSE {FALSE}),
          h0 \in {HeapAt(vec[id], IF o \in Ids \ {id} THEN vec[o] ELSE NoVec)} :
        \E h \in {Replay(h0, r.steps, 1)} :
            /\ vec' = IF crash THEN vec ELSE after
            /\ call' = [op |-> op, id |-> id, o |-> o, idx |-> idx, arg |-> arg,
                        fail |-> fail, out |-> IF crash THEN "crash" ELSE r.out,
                        path |-> r.path, ret |-> r.ret, bad |-> r.bad, ub |-> r.ub,
                        leak |-> r.leak, pre |-> vec, steps |-> r.steps, mem |-> h]
            /\ heap' = IF crash THEN heap
                       ELSE [blocks |-> heap.blocks - Cardinality(h0.live)
                                                    + Cardinality(h.live),
                             twice |-> heap.twice \/ h.twice]
    /\ UNCHANGED nothrowMove

\* the caller goes on to its next call
Return ==
    /\ call # Idle
    /\ call.out # "crash"
    /\ call' = Idle
    /\ UNCHANGED <<vec, nothrowMove, heap>>

On(id, r) == [vec EXCEPT ![id] = r.v]

Both(id, s, p) == [i \in Ids |-> IF i = id THEN p[1] ELSE IF i = s THEN p[2] ELSE vec[i]]

Args(v) == {ExtArg(x) : x \in Values} \cup {RefArg(k) : k \in 0..(v.size - 1)}

\* which element of a transfer of n elements throws
Js(fail, n) == IF fail = "transfer" THEN 0..(n - 1) ELSE {0}

\* The values a self-move of v's last element can leave.  The self-move of the
\* in-place path is seen only when nothing overwrites the slot afterwards.
SelfMoved(v, index) == IF v.size > 0 /\ index = v.size /\ v.size < Capacity(v)
                       THEN Values \cup {ValAt(Blk(v), v.size - 1)} ELSE {Indet}

DefaultConstruct(id) ==
    /\ call = Idle
    /\ ~vec[id].ex
    /\ Finish("Vector", id, "", -1, NoArg, "none",
              Did(Unchanged(DefaultVec, "ok", "ctor"), <<InitNull("this")>>),
              [vec EXCEPT ![id] = DefaultVec])

SizeConstruct(id, n, fail) ==
    /\ call = Idle
    /\ ~vec[id].ex
    /\ fail # "transfer"
    /\ \E r \in {SizeCtor(n, fail)} :
           Finish("VectorN", id, "", n, NoArg, fail, r, On(id, r))

CopyConstruct(id, s, fail) ==
    /\ call = Idle
    /\ ~vec[id].ex /\ vec[s].ex
    /\ fail # "ctor"
    /\ \E j \in Js(fail, vec[s].size) :
        \E r \in {CopyCtor(vec[s], fail, j)} :
            Finish("VectorCopy", id, s, -1, NoArg, fail, r, On(id, r))

MoveConstruct(id, s) ==
    /\ call = Idle
    /\ ~vec[id].ex /\ vec[s].ex
    /\ \E p \in {MoveCtor(vec[s])} :
           Finish("VectorMove", id, s, -1, NoArg, "none",
                  Did(Unchanged(p[1], "ok", "ctor"), MoveCtorSteps), Both(id, s, p))

Destroy(id) ==
    /\ call = Idle
    /\ vec[id].ex
    /\ \E r \in {DtorOp(vec[id])} :
           Finish("~Vector", id, "", -1, NoArg, "none", r, On(id, r))

CopyAssign(id, s, fail) ==
    /\ call = Idle
    /\ vec[id].ex /\ vec[s].ex
    /\ fail # "ctor"
    /\ \E j \in Js(fail, vec[s].size) :
        \E r \in {IF id = s THEN Unchanged(vec[id], "ok", "self")
                 ELSE CopyAssignOp(vec[id], vec[s], fail, j)} :
            Finish("CopyAssign", id, s, -1, NoArg, fail, r, On(id, r))

MoveAssign(id, s) ==
    /\ call = Idle
    /\ vec[id].ex /\ vec[s].ex
    /\ \E p \in {IF id = s THEN <<vec[id], vec[id]>> ELSE MoveAssignVec(vec[id], vec[s])} :
           Finish("MoveAssign", id, s, -1, NoArg, "none",
                  Did(Unchanged(p[1], "ok", IF id = s THEN "self" ELSE "swap"),
                      IF id = s THEN <<>> ELSE SwapSteps), Both(id, s, p))

Swap(id, s) ==
    /\ call = Idle
    /\ vec[id].ex /\ vec[s].ex
    /\ \E p \in {IF id = s THEN <<vec[id], vec[id]>> ELSE SwapVec(vec[id], vec[s])} :
           Finish("Swap", id, s, -1, NoArg, "none",
                  Did(Unchanged(p[1], "ok", "swap"), IF id = s THEN <<>> ELSE SwapSteps),
                  Both(id, s, p))

PushBack(id, arg, fail) ==
    /\ call = Idle
    /\ vec[id].ex
    /\ fail = "transfer" => ~nothrowMove
    /\ \E j \in Js(fail, vec[id].size) :
        \E r \in {PushBackOp(vec[id], arg, nothrowMove, fail, j)} :
            Finish("PushBack", id, "", -1, arg, fail, r, On(id, r))

EmplaceBack(id, arg, fail) ==
    /\ call = Idle
    /\ vec[id].ex
    /\ fail = "transfer" => ~nothrowMove
    /\ \E j \in Js(fail, vec[id].size) :
        \E r \in {EmplaceBackOp(vec[id], arg, nothrowMove, fail, j)} :
            Finish("EmplaceBack", id, "", -1, arg, fail, r, On(id, r))

PopBack(id) ==
    /\ call = Idle
    /\ vec[id].ex /\ vec[id].size > 0
    /\ \E r \in {PopBackOp(vec[id])} :
           Finish("PopBack", id, "", -1, NoArg, "none", r, On(id, r))

Reserve(id, n, fail) ==
    /\ call = Idle
    /\ vec[id].ex
    /\ fail # "ctor"
    /\ fail = "transfer" => ~nothrowMove
    /\ \E j \in Js(fail, vec[id].size) :
        \E r \in {ReserveOp(vec[id], n, nothrowMove, fail, j)} :
            Finish("Reserve", id, "", n, NoArg, fail, r, On(id, r))

Resize(id, n, fail) ==
    /\ call = Idle
    /\ vec[id].ex
    /\ fail = "transfer" => ~nothrowMove
    /\ \E j \in Js(fail, vec[id].size) :
        \E r \in {ResizeOp(vec[id], n, nothrowMove, fail, j)} :
            Finish("Resize", id, "", n, NoArg, fail, r, On(id, r))

Insert(id, index, arg, fail) ==
    /\ call = Idle
    /\ vec[id].ex
    /\ fail = "transfer" => ~nothrowMove
    /\ \E j \in Js(fail, vec[id].size), self \in SelfMoved(vec[id], index) :
        \E r \in {InsertOp(vec[id], index, arg, nothrowMove, fail, j, self)} :
            Finish("Insert", id, "", index, arg, fail, r, On(id, r))

Emplace(id, index, arg, fail) ==
    /\ call = Idle
    /\ vec[id].ex
    /\ fail = "transfer" => ~nothrowMove
    /\ \E j \in Js(fail, vec[id].size), self \in SelfMoved(vec[id], index) :
        \E r \in {EmplaceOp(vec[id], index, arg, nothrowMove, fail, j, self)} :
            Finish("Emplace", id, "", index, arg, fail, r, On(id, r))

Erase(id, index) ==
    /\ call = Idle
    /\ vec[id].ex
    /\ \E r \in {EraseOp(vec[id], index)} :
           Finish("Erase", id, "", index, NoArg, "none", r, On(id, r))

\* ------------------------------------------------------ the specifications
\* Spec: every operation on a single object, the vector Main.
Next ==
    \/ DefaultConstruct(Main) /\ UNCHANGED shadow
    \/ \E n \in 0..MaxCap, fail \in Fails : SizeConstruct(Main, n, fail) /\ UNCHANGED shadow
    \/ Destroy(Main) /\ UNCHANGED shadow
    \/ \E arg \in Args(vec[Main]), fail \in Fails :
           PushBack(Main, arg, fail) /\ UNCHANGED shadow
    \/ \E arg \in Args(vec[Main]), fail \in Fails :
           EmplaceBack(Main, arg, fail) /\ UNCHANGED shadow
    \/ PopBack(Main) /\ UNCHANGED shadow
    \/ \E n \in 0..MaxCap, fail \in Fails : Reserve(Main, n, fail) /\ UNCHANGED shadow
    \/ \E n \in 0..MaxCap, fail \in Fails : Resize(Main, n, fail) /\ UNCHANGED shadow
    \/ \E index \in 0..vec[Main].size, arg \in Args(vec[Main]), fail \in Fails :
           Insert(Main, index, arg, fail) /\ UNCHANGED shadow
    \/ \E index \in 0..vec[Main].size, arg \in Args(vec[Main]), fail \in Fails :
           Emplace(Main, index, arg, fail) /\ UNCHANGED shadow
    \/ \E index \in 0..(vec[Main].size - 1) : Erase(Main, index) /\ UNCHANGED shadow
    \/ Return /\ UNCHANGED shadow

Spec == Init /\ [][Next]_vars

\* SpecPair: two objects.  Either is constructed (also as a copy or by a move
\* of the other), filled, assigned from the other, swapped and destroyed; the
\* calls that can fail for lack of memory are made on Main.  (Spec has the
\* throwing constructions.)  No block of this
\* specification is larger than PairCap.
PairCap == MaxCap - 2

Small == \A i \in Ids : Capacity(vec'[i]) <= PairCap

\* out of memory is the failure the calls of this specification run into
MemFails == {"none", "alloc"}

NextPair ==
    \/ \E id \in Ids : DefaultConstruct(id) /\ UNCHANGED shadow
    \/ \E id \in Ids, n \in 0..PairCap, fail \in Fails :
           SizeConstruct(id, n, fail) /\ UNCHANGED shadow
    \/ \E id \in Ids : \E s \in Ids \ {id}, fail \in Fails :
           CopyConstruct(id, s, fail) /\ UNCHANGED shadow
    \/ \E id \in Ids : \E s \in Ids \ {id} : MoveConstruct(id, s) /\ UNCHANGED shadow
    \/ \E id \in Ids : Destroy(id) /\ UNCHANGED shadow
    \/ \E id \in Ids, s \in Ids, fail \in Fails : CopyAssign(id, s, fail) /\ UNCHANGED shadow
    \/ \E id \in Ids, s \in Ids : MoveAssign(id, s) /\ UNCHANGED shadow
    \/ \E id \in Ids, s \in Ids : Swap(id, s) /\ UNCHANGED shadow
    \/ \E id \in Ids, x \in Values, fail \in MemFails :
           PushBack(id, ExtArg(x), fail) /\ Small /\ UNCHANGED shadow
    \/ \E id \in Ids : PopBack(id) /\ UNCHANGED shadow
    \/ \E x \in Values, fail \in MemFails :
           EmplaceBack(Main, ExtArg(x), fail) /\ Small /\ UNCHANGED shadow
    \/ \E n \in 0..PairCap, fail \in MemFails : Reserve(Main, n, fail) /\ UNCHANGED shadow
    \/ \E n \in 0..PairCap, fail \in MemFails : Resize(Main, n, fail) /\ UNCHANGED shadow
    \/ \E index \in 0..vec[Main].size, x \in Values, fail \in MemFails :
           Insert(Main, index, ExtArg(x), fail) /\ Small /\ UNCHANGED shadow
    \/ \E index \in 0..vec[Main].size, x \in Values, fail \in MemFails :
           Emplace(Main, index, ExtArg(x), fail) /\ Small /\ UNCHANGED shadow
    \/ \E index \in 0..(vec[Main].size - 1) : Erase(Main, index) /\ UNCHANGED shadow
    \/ Return /\ UNCHANGED shadow

SpecPair == Init /\ [][NextPair]_vars

\* SpecPushPop: PushBack, EmplaceBack and PopBack on a default-constructed
\* vector, and the abstract sequence shadow driven by the same calls.
\* the value the abstract sequence is given: an outside value, or its own element k
AbsArg(arg) ==
    IF ~arg.ref THEN arg.x
    ELSE IF arg.x < Len(shadow) THEN shadow[arg.x + 1] ELSE Indet

\* a push that throws pushes nothing
AbsPush(arg) == shadow' = IF call'.out = "ok" THEN Append(shadow, AbsArg(arg)) ELSE shadow

AbsPop == shadow' = SubSeq(shadow, 1, Len(shadow) - 1)

NextPushPop ==
    \/ \E arg \in Args(vec[Main]), fail \in Fails : PushBack(Main, arg, fail) /\ AbsPush(arg)
    \/ \E arg \in Args(vec[Main]), fail \in Fails : EmplaceBack(Main, arg, fail) /\ AbsPush(arg)
    \/ PopBack(Main) /\ AbsPop
    \/ Return /\ UNCHANGED shadow

SpecPushPop == Init /\ [][NextPushPop]_vars

\* ------------------------------------------------------------- the claims
\* the vector the last call was made on, before the call and now
Pre == call.pre[call.id]

Cur == vec[call.id]

\* the value the argument of the last call had before the call
ArgBefore == Deref(Blk(Pre), call.arg)

InsertAt(s, i, x) == SubSeq(s, 1, i) \o <<x>> \o SubSeq(s, i + 1, Len(s))

RemoveAt(s, i) == SubSeq(s, 1, i) \o SubSeq(s, i + 2, Len(s))

Max(a, b) == IF a >= b THEN a ELSE b

\* Size(), Capacity() and every element value are what they were before the call
SameState ==
    /\ Size(Cur) = Size(Pre)
    /\ Capacity(Cur) = Capacity(Pre)
    /\ Elems(Cur) = Elems(Pre)

\* an Insert or Emplace in which nothing fails
InsertCalled == call.op \in {"Insert", "Emplace"} /\ call.fail = "none"

\* the call returned; the vector holds old[0..i), x, old[i..oldSize), one
\* element more than before, and the iterator returned points at index i
Inserted ==
    /\ call.out = "ok"
    /\ Elems(Cur) = InsertAt(Elems(Pre), call.idx, ArgBefore)
    /\ Size(Cur) = Size(Pre) + 1
    /\ WellFormed(Cur)
    /\ call.ret = RetAt(call.idx)

\* C1: in every reachable state every slot in [0, Size()) of a vector holds a
\* live element and every slot in [Size(), Capacity()) is uninitialized.
C1_LiveBelowSizeRawAbove == \A i \in Ids : vec[i].ex => WellFormed(vec[i])

\* C2: in-place insertion.  Insert/Emplace of x at i in [0, Size()] on a vector
\* with Size() < Capacity() leaves old[0..i), x, old[i..oldSize), the size one
\* larger, the capacity unchanged, and returns an iterator at index i.
C2_InPlaceInsert ==
    InsertCalled /\ Size(Pre) < Capacity(Pre)
        => Inserted /\ Capacity(Cur) = Capacity(Pre)

\* C3: reallocating insertion.  Insert/Emplace of x at i in [0, Size()] on a
\* vector with Size() = Capacity() leaves old[0..i), x, old[i..oldSize), the
\* size one larger, Capacity() = max(1, 2 * oldCapacity), and returns an
\* iterator at index i.
C3_ReallocInsert ==
    InsertCalled /\ Size(Pre) = Capacity(Pre)
        => Inserted /\ Capacity(Cur) = Max(1, 2 * Capacity(Pre))

\* a full vector <<0, 1>> has had a value inserted between its two elements
C3_Witness ==
    /\ call.op = "Insert" /\ call.out = "ok" /\ call.path = "realloc"
    /\ Elems(Pre) = <<0, 1>> /\ Capacity(Pre) = 2 /\ call.idx = 1
    /\ Elems(Cur) = <<0, 1, 1>> /\ Capacity(Cur) = 4

\* C4: self-referential insert.  v.Insert(begin() + i, v[k]) inserts at i the
\* value v[k] had before the call and keeps every old element, with its value,
\* in order, on the reallocation path and on the in-place path.
C4_SelfInsert ==
    call.op = "Insert" /\ call.arg.ref /\ call.fail = "none"
        => /\ call.out = "ok"
           /\ Elems(Cur) = InsertAt(Elems(Pre), call.idx, Elems(Pre)[call.arg.x + 1])

\* C5: after every sequence of PushBack/EmplaceBack and PopBack calls on a
\* default-constructed vector, Size() is the number of pushes minus the number
\* of pops and the elements are those of the abstract sequence, in order.
C5_PushPopRefinesSequence ==
    /\ Size(vec[Main]) = Len(shadow)
    /\ Elems(vec[Main]) = shadow

\* three pushes, the third into a new block of 4 slots, and a pop
C5_Witness ==
    /\ call.op = "PopBack" /\ Capacity(vec[Main]) = 4
    /\ shadow = <<1, 0>> /\ Elems(call.pre[Main]) = <<1, 0, 1>>

\* C6: Erase at i in [0, Size()) leaves old[0..i) followed by old[i+1..oldSize),
\* the size one smaller, the capacity unchanged, and returns an iterator at
\* index i, which is end() when the last element was erased.
C6_Erase ==
    call.op = "Erase"
        => /\ call.out = "ok"
           /\ Elems(Cur) = RemoveAt(Elems(Pre), call.idx)
           /\ Size(Cur) = Size(Pre) - 1
           /\ Capacity(Cur) = Capacity(Pre)
           /\ WellFormed(Cur)
           /\ call.ret = RetAt(call.idx)
           /\ call.idx = Size(Pre) - 1 => call.ret.idx = Size(Cur)

\* the middle element of <<0, 1, 0>> has been erased
C6_Witness ==
    /\ call.op = "Erase" /\ call.idx = 1
    /\ Elems(Pre) = <<0, 1, 0>> /\ Elems(Cur) = <<0, 0>>

\* a move (construction or assignment) from call.o into another object call.id
MovedFromOther == call.op \in {"VectorMove", "MoveAssign"} /\ call.id # call.o

\* C7 as stated: after move-construction from s, and after move-assignment
\* d = std::move(s) into a distinct d with any prior contents, s.Size() = 0.
C7_SourceEmptyAfterMove == MovedFromOther => Size(vec[call.o]) = 0

\* C7, amended: after move-construction from s the source is empty; after
\* move-assignment into a distinct d the source holds what d held before:
\* d's prior elements, size and capacity.
C7_SourceAfterMove ==
    /\ call.op = "VectorMove" => Size(vec[call.o]) = 0 /\ Capacity(vec[call.o]) = 0
    /\ call.op = "MoveAssign" /\ call.id # call.o => vec[call.o] = call.pre[call.id]

\* a move-assignment into a destination that held one element
C7_Witness ==
    /\ call.op = "MoveAssign" /\ call.id # call.o
    /\ Size(call.pre[call.id]) = 1 /\ Size(call.pre[call.o]) = 2
    /\ Size(vec[call.o]) = 1

\* the constructions the claim C8 is about: of the new element, and of an
\* element during Reserve's transfer
ThrowingConstruction ==
    \/ call.op \in {"PushBack", "EmplaceBack", "Insert", "Emplace"} /\ call.fail = "ctor"
    \/ call.op = "Reserve" /\ call.fail = "transfer"

\* C8: if the construction of the new element throws in PushBack, EmplaceBack,
\* Insert or Emplace, or an element construction throws during Reserve's
\* transfer, Size(), Capacity() and every element are as before the call.
C8_ThrowLeavesState == ThrowingConstruction /\ call.out = "throw" => SameState

\* C9: if an allocation fails inside PushBack, EmplaceBack, Insert, Emplace,
\* Reserve, Resize or a copy-assignment, the call fails and Size(), Capacity()
\* and every element are as before the call.
C9_AllocFailureLeavesState ==
    /\ call.fail = "alloc"
    /\ call.op \in {"PushBack", "EmplaceBack", "Insert", "Emplace", "Reserve", "Resize",
                    "CopyAssign"}
    => call.out = "bad_alloc" /\ SameState /\ vec = call.pre

\* a copy-assignment from a source larger than the capacity ran out of memory
C9_Witness ==
    /\ call.op = "CopyAssign" /\ call.out = "bad_alloc"
    /\ Size(Pre) = 1 /\ Capacity(Pre) = 1 /\ Size(call.pre[call.o]) = 2

\* C10: after move-construction or move-assignment from s into a distinct d,
\* d holds the elements s held before, in order, and s's prior size.
C10_DestinationHoldsSource ==
    MovedFromOther
        => /\ Elems(vec[call.id]) = Elems(call.pre[call.o])
           /\ Size(vec[call.id]) = Size(call.pre[call.o])

\* a vector has been move-constructed from the source <<0, 1>>
C10_Witness ==
    /\ call.op = "VectorMove"
    /\ Elems(call.pre[call.o]) = <<0, 1>> /\ Elems(vec[call.id]) = <<0, 1>>

\* a PushBack or EmplaceBack that returned
Pushed == call.op \in {"PushBack", "EmplaceBack"} /\ call.out = "ok"

\* C11: growth rule.  A PushBack/EmplaceBack on a vector with Capacity() = 0
\* yields Capacity() = 1, on a full vector with Capacity() > 0 exactly twice
\* the old capacity, and with Size() < Capacity() the capacity it had.
C11_GrowthRule ==
    Pushed => Capacity(Cur) = IF Capacity(Pre) = 0 THEN 1
                              ELSE IF Size(Pre) = Capacity(Pre) THEN 2 * Capacity(Pre)
                              ELSE Capacity(Pre)

\* a push onto a full vector of 2 elements has moved it to a block of 4 slots
C11_Witness ==
    /\ Pushed /\ call.path = "realloc"
    /\ Size(Pre) = 2 /\ Capacity(Pre) = 2 /\ Capacity(Cur) = 4 /\ Size(Cur) = 3

\* C12: Size() <= Capacity() in every reachable state.
C12_SizeWithinCapacity == \A i \in Ids : vec[i].ex => Size(vec[i]) <= Capacity(vec[i])

\* a call has filled the vector up to its capacity of two slots
C12_Witness ==
    /\ call.op \in {"Resize", "Insert", "Emplace", "CopyAssign"} /\ call.out = "ok"
    /\ Size(Pre) < Size(Cur) /\ Size(Cur) = 2 /\ Capacity(Cur) = 2

\* the calls that never shrink the capacity: all but a copy or move
\* assignment, a swap and a shrinking Resize
KeepsCapacity ==
    \/ call.op \in {"PushBack", "EmplaceBack", "PopBack", "Reserve", "Insert", "Emplace",
                    "Erase"}
    \/ call.op = "Resize" /\ call.idx > Size(Pre)

\* C13: none of PushBack, EmplaceBack, PopBack, Reserve, Insert, Emplace, Erase
\* or a growing Resize leaves Capacity() smaller than it was before the call,
\* however the call ends.
C13_CapacityNeverDecreases == KeepsCapacity => Capacity(Cur) >= Capacity(Pre)

\* Reserve was asked for less than the capacity of a non-empty vector
C13_Witness ==
    /\ call.op = "Reserve" /\ call.idx < Capacity(Pre) /\ call.idx >= Size(Pre)
    /\ Size(Pre) > 0 /\ Capacity(Cur) = Capacity(Pre)

\* C14: copy-assignment d = s, d distinct from s, in each of its three cases
\* leaves d with Size() = s.Size() and d[i] = s[i] for every i, and leaves s
\* unchanged.
C14_CopyAssign ==
    call.op = "CopyAssign" /\ call.id # call.o /\ call.out = "ok"
        => /\ Size(Cur) = Size(call.pre[call.o])
           /\ Elems(Cur) = Elems(call.pre[call.o])
           /\ WellFormed(Cur)
           /\ vec[call.o] = call.pre[call.o]
           /\ call.path = IF Size(call.pre[call.o]) > Capacity(Pre) THEN "copyswap"
                          ELSE IF Size(call.pre[call.o]) < Size(Pre) THEN "shrink"
                          ELSE "grow"

\* <<1, 0>> has been assigned to a vector that held <<0>> in a block of two
\* slots: one element assigned, one constructed
C14_Witness ==
    /\ call.op = "CopyAssign" /\ call.id # call.o /\ call.path = "grow"
    /\ Elems(Pre) = <<0>> /\ Capacity(Pre) = 2
    /\ Elems(call.pre[call.o]) = <<1, 0>> /\ Elems(Cur) = <<1, 0>>

\* the first n elements of s, and default-constructed values after them
ResizedSeq(s, n) == [k \in 1..n |-> IF k <= Len(s) THEN s[k] ELSE DefaultVal]

\* C15: Resize(n) on a vector of size s sets Size() to n; for n > s the
\* elements [0, s) keep their values and [s, n) are default-constructed; for
\* n < s the elements [0, n) keep their values and [n, s) are destroyed; for
\* n = s nothing changes.
C15_Resize ==
    call.op = "Resize" /\ call.out = "ok"
        => /\ Size(Cur) = call.idx
           /\ Elems(Cur) = ResizedSeq(Elems(Pre), call.idx)
           /\ WellFormed(Cur)
           /\ call.idx = Size(Pre) => Cur = Pre

\* Resize(3) on <<1>> in a block of one slot
C15_Witness ==
    /\ call.op = "Resize" /\ call.idx = 3 /\ call.path = "realloc"
    /\ Elems(Pre) = <<1>> /\ Capacity(Pre) = 1 /\ Elems(Cur) = <<1, 0, 0>>

\* the block the object of the last call owns is the one it owned before
SameBlock == call.mem.at["this"] = HeldBy(Pre, "this") /\ call.mem.count = 0

\* C16: Reserve(n) with n <= Capacity() changes nothing: not the size, the
\* capacity, the elements or the owned block.  Reserve(n) with n > Capacity()
\* that returns leaves Capacity() = n, in a block allocated by the call, and
\* the size and the elements as they were.
C16_Reserve ==
    (call.op = "Reserve" /\ call.out # "crash") =>
        IF call.idx <= Capacity(Pre)
        THEN call.out = "ok" /\ Cur = Pre /\ SameBlock /\ call.steps = <<>>
        ELSE call.out = "ok" =>
                /\ Capacity(Cur) = call.idx
                /\ Size(Cur) = Size(Pre)
                /\ Elems(Cur) = Elems(Pre)
                /\ call.mem.at["this"] = Fresh[1]

\* a Reserve that grew a vector holding two elements or more
C16_Witness ==
    /\ call.op = "Reserve" /\ call.out = "ok"
    /\ Size(Pre) > 1
    /\ call.idx > Capacity(Pre)
    /\ Capacity(Cur) = call.idx

\* the objects that own a block
Owners == {id \in Ids : vec[id].ex /\ Capacity(vec[id]) > 0}

\* C17: a raw block is owned by exactly one RawMemory at a time and released
\* exactly once.  No instance shares a block with another or keeps a released
\* one, no unreleased block is without an owner, no block is released twice,
\* the temporaries of a call are gone when it returns, and as many blocks are
\* allocated as objects own one: none when all objects are destroyed.
C17_BlockOwnedOnce ==
    /\ ~heap.twice
    /\ heap.blocks = Cardinality(Owners)
    /\ call.out # "crash" =>
        /\ ~call.mem.twice /\ ~call.mem.shared /\ ~call.mem.lost /\ ~call.mem.dangling
        /\ call.mem.at["new"] = "none" /\ call.mem.at["copy"] = "none"

\* the last object that owned a block was destroyed, after a call had
\* allocated a block and released one
C17_Witness ==
    /\ call.op = "~Vector" /\ Capacity(Pre) > 0
    /\ \A id \in Ids : ~vec[id].ex
    /\ heap.blocks = 0

\* the last call took the reallocation path of PushBack, EmplaceBack, Emplace
\* or Insert
Reallocating ==
    /\ call.op \in {"PushBack", "EmplaceBack", "Emplace", "Insert"}
    /\ call.path = "realloc"
    /\ call.out # "crash"

\* what the steps of the path do, in their order
Kinds == [k \in 1..Len(call.steps) |-> call.steps[k].a]

\* the step touches the vector's own block or its size
TouchesOwn(st) ==
    \/ st.a \in {"destroy", "construct", "move", "assign", "size", "release"} /\ st.i = "this"
    \/ st.a = "swap" /\ "this" \in {st.i, st.j}

\* the whole transfer is over, and succeeded, before the k-th step
TransferredBefore(k) ==
    /\ \E t \in 1..(k - 1) : call.steps[t].a = "transfer"
    /\ \A t \in 1..Len(call.steps) :
           call.steps[t].a = "transfer" => t < k /\ call.steps[t].ok

\* the slot the new element goes to
NewSlot == IF call.op \in {"PushBack", "EmplaceBack"} THEN Size(Pre) ELSE call.idx

ReleasedEmpty == \A k \in 1..Len(call.steps) : call.steps[k].a = "release" => call.steps[k].ok

\* C19: whenever a raw block is released, on the success path or while an
\* operation that threw unwinds, no slot of the block holds a live object.
C19_ReleasedBlockHasNoLiveObject == call.out # "crash" => ReleasedEmpty /\ ~call.leak

\* C19 for the calls that return
C19_OnSuccess == call.out = "ok" => ReleasedEmpty /\ ~call.leak

\* C19 for the calls that throw, other than from the reallocation path of
\* PushBack, EmplaceBack, Emplace and Insert with a copy that throws
C19_OtherUnwinding ==
    (call.out \notin {"ok", "crash"} /\ ~(Reallocating /\ call.fail = "transfer"))
        => ReleasedEmpty /\ ~call.leak

\* the last call took the in-place path of Emplace or Insert
InPlaceEmplace == call.op \in {"Emplace", "Insert"} /\ call.path = "inplace"

\* C20: every element access of an operation called within its preconditions
\* targets a slot of the block in the state the access requires: a slot read,
\* assigned to, moved from or destroyed holds a live object, a slot constructed
\* into is uninitialized, and the index is within [0, Capacity()).
C20_AccessesTargetValidSlots == ~call.bad

\* C20 for every call but those on the in-place path of Emplace and Insert
C20_OutsideInPlaceEmplace == ~InPlaceEmplace => ~call.bad

\* C20 for the in-place path of Emplace and Insert on a vector with
\* Size() = 0 and Capacity() > 0
C20_EmptyInPlace ==
    (InPlaceEmplace /\ Size(Pre) = 0 /\ call.fail = "none") => ~call.bad

====
